---- MODULE Spec2Model ----
(***************************************************************************)
(* Model of md_to_html.py: the static-site generator's main() pipeline     *)
(* (clear, copy, convert, sub-indexes, aggregate index, self-archive)      *)
(* over an abstract file system.                                           *)
(*                                                                         *)
(* A file name is a record [dot, stem, ext]: dot says the name starts with *)
(* '.', ext is pathlib's suffix without the dot ("" when there is none).   *)
(* A path is a sequence of names relative to its root (the input root for  *)
(* the source tree, the output root for the output tree); <<>> is the root.*)
(* A tree is [dirs |-> set of paths, files |-> function path -> content].  *)
(***************************************************************************)
EXTENDS Integers, Sequences, FiniteSets, TLC

\* ---------------------------------------------------------------- bounds
MaxTime == 2      \* creation timestamps range over 1..MaxTime
MaxDocs == 2      \* at most this many documents in the source tree
MaxRuns == 2      \* main() is invoked at most this many times in a row

\* ----------------------------------------------------------------- names
N(s, e) == [dot |-> FALSE, stem |-> s, ext |-> e]
H(s, e) == [dot |-> TRUE, stem |-> s, ext |-> e]

IndexHtml   == N("index", "html")
ResourcesNm == N("_resources", "")
AssertNm    == N("assert", "")
AssetNm     == N("asset", "")
ScriptNm    == N("md_to_html", "py")
GitNm       == H("git", "")
UpNm        == N("..", "")

\* pathlib: PurePath.stem / .suffix / .with_suffix
Stem(n)          == [dot |-> n.dot, stem |-> n.stem]
Suffix(n)        == n.ext
WithSuffix(n, e) == [n EXCEPT !.ext = e]

\* The order in which os.listdir / scandir yields the names of one directory.
\* The order is arbitrary but fixed for a given directory content.
NameOrder ==
  << N("a", "md"), N("a", "html"), N("sub", ""), H("git", ""),
     N("index", "md"), N("index", "html"), N("b", "md"), N("b", "html"),
     N("deep", ""), N("d", "md"), N("d", "html"),
     N("_resources", ""), N("r", "md"), N("r", "html"),
     N("assert", ""), N("style", "css"), N("md_to_html", "py"),
     H("keep", ""), N("notes.md", "html"), N("config", ""),
     N("hooks", ""), N("old", "html") >>

\* ----------------------------------------------------------------- paths
Last(p)   == p[Len(p)]
Parent(p) == SubSeq(p, 1, Len(p) - 1)
IsPrefix(p, q) == Len(p) <= Len(q) /\ SubSeq(q, 1, Len(p)) = p
Prefixes(p) == { SubSeq(p, 1, k) : k \in 0..Len(p) }
PathWithSuffix(p, e) == [p EXCEPT ![Len(p)] = WithSuffix(p[Len(p)], e)]

RECURSIVE CommonLen(_, _)
CommonLen(p, q) ==
  IF p # <<>> /\ q # <<>> /\ Head(p) = Head(q)
  THEN 1 + CommonLen(Tail(p), Tail(q)) ELSE 0

\* os.path.relpath(target, start) on normalised paths below one root
RelPath(target, start) ==
  LET c == CommonLen(target, start)
  IN  [i \in 1..(Len(start) - c) |-> UpNm] \o SubSeq(target, c + 1, Len(target))

\* ----------------------------------------------------------------- trees
EmptyTree == [dirs |-> {}, files |-> <<>>]
Entries(fs)   == fs.dirs \cup DOMAIN fs.files
IsDir(fs, p)  == p \in fs.dirs
IsFile(fs, p) == p \in DOMAIN fs.files
Exists(fs, p) == p \in Entries(fs)

\* os.listdir(d): names of the immediate children of d, in directory order
ListDir(fs, d) ==
  SelectSeq(NameOrder, LAMBDA n : Append(d, n) \in Entries(fs))

\* shutil.rmtree(p) / os.remove(p)
RmTree(fs, p) ==
  [dirs  |-> { q \in fs.dirs : ~IsPrefix(p, q) },
   files |-> [q \in { r \in DOMAIN fs.files : ~IsPrefix(p, r) } |-> fs.files[q]]]

\* Path.mkdir(parents=True, exist_ok=True)
MkDirs(fs, p) == [fs EXCEPT !.dirs = @ \cup Prefixes(p)]

\* the file opened for appending instead of writing
WriteFileAppend(fs, p, c) ==
  [fs EXCEPT !.files = (p :> IF IsFile(fs, p)
                              THEN [kind |-> "raw", data |-> <<fs.files[p], c>>]
                              ELSE c) @@ @]

\* open(p, 'w').write(c)
WriteFile(fs, p, c) == [fs EXCEPT !.files = (p :> c) @@ @]

\* shutil.copytree(from/src_dir, to/dst_dir)
CopyTree(from, src_dir, to, dst_dir) ==
  LET Map(q) == dst_dir \o SubSeq(q, Len(src_dir) + 1, Len(q))
      ds == { q \in from.dirs : IsPrefix(src_dir, q) }
      fl == { q \in DOMAIN from.files : IsPrefix(src_dir, q) }
      nf == { Map(q) : q \in fl }
  IN  [dirs  |-> to.dirs \cup { Map(q) : q \in ds },
       files |-> [p \in nf \cup DOMAIN to.files |->
                    IF p \in nf
                    THEN LET q == CHOOSE r \in fl : Map(r) = p
                         IN  [kind |-> "raw", data |-> from.files[q].text]
                    ELSE to.files[p]]]

\* glob('**/*.ext') / rglob('*.ext'): every entry below d (d included) whose
\* suffix is ext, directory by directory, parents before children
RECURSIVE RGlob(_, _, _)
RECURSIVE RGlobDirs(_, _, _, _)
RGlob(fs, d, e) ==
  LET names == ListDir(fs, d)
      here  == SelectSeq(names, LAMBDA n : Suffix(n) = e)
      subs  == SelectSeq(names, LAMBDA n : IsDir(fs, Append(d, n)))
  IN  [i \in 1..Len(here) |-> Append(d, here[i])] \o RGlobDirs(fs, d, subs, e)
RGlobDirs(fs, d, subs, e) ==
  IF subs = <<>> THEN <<>>
  ELSE RGlob(fs, Append(d, Head(subs)), e) \o RGlobDirs(fs, d, Tail(subs), e)

\* ------------------------------------------------------ NavigationManager
\* NavigationManager.add_top_level_dir
add_top_level_dir(top_level_dirs, dir_name) ==
  IF \E i \in 1..Len(top_level_dirs) : top_level_dirs[i] = dir_name
  THEN top_level_dirs
  ELSE Append(top_level_dirs, dir_name)

\* NavigationManager.generate_navbar
generate_navbar(top_level_dirs, current_path) ==
  [home  |-> RelPath(<<IndexHtml>>, Parent(current_path)),
   links |-> [i \in 1..Len(top_level_dirs) |->
                [href |-> RelPath(<<top_level_dirs[i], IndexHtml>>, Parent(current_path)),
                 text |-> top_level_dirs[i]]]]

\* find_top_level_dirs
find_top_level_dirs(source) ==
  SelectSeq(ListDir(source, <<>>), LAMBDA n : IsDir(source, <<n>>))

\* the registration loop of main(): every top-level directory but _resources
RECURSIVE RegisterSections(_, _)
RegisterSections(top_level_dirs, top_dirs) ==
  IF top_dirs = <<>> THEN top_level_dirs
  ELSE RegisterSections(
         IF Head(top_dirs) = ResourcesNm THEN top_level_dirs
         ELSE add_top_level_dir(top_level_dirs, Head(top_dirs)),
         Tail(top_dirs))

\* find_md_files
find_md_files(source) == RGlob(source, <<>>, "md")

\* ------------------------------------------------------------ conversion
\* mistune.html: the external renderer
Render(text) == <<"html", text>>

\* datetime.fromtimestamp(ctime).strftime('%Y-%m-%d %H:%M'): minute precision
TimeStr(ctime) == <<"strftime", ctime \div 60>>

\* convert_md_to_html (reading and writing succeed)
convert_md_to_html(fs, source, md_path, top_level_dirs) ==
  LET title     == Stem(Last(md_path))
      html_path == PathWithSuffix(md_path, "html")
      page      == [kind   |-> "page",
                    title  |-> title,
                    navbar |-> generate_navbar(top_level_dirs, html_path),
                    body   |-> Render(source.files[md_path].text)]
  IN  WriteFile(MkDirs(fs, Parent(html_path)), html_path, page)

\* ------------------------------------------------------------- tree sync
\* ignore_hidden_and_git
ignore_hidden_and_git(path, files) ==
  { Append(path, files[i]) : i \in { j \in 1..Len(files) : files[j] = GitNm \/ files[j].dot } }

RECURSIVE RemoveAll(_, _, _)
RemoveAll(fs, root, names) ==
  IF names = <<>> THEN fs
  ELSE RemoveAll(RmTree(fs, Append(root, Head(names))), root, Tail(names))

\* safe_rmtree: os.walk(path, topdown=True); walking a directory that no
\* longer exists yields nothing
RECURSIVE safe_rmtree(_, _)
RECURSIVE WalkInto(_, _, _)
safe_rmtree(fs, root) ==
  IF ~IsDir(fs, root) THEN fs
  ELSE LET names   == ListDir(fs, root)
           dirs0   == SelectSeq(names, LAMBDA n : IsDir(fs, Append(root, n)))
           files0  == SelectSeq(names, LAMBDA n : ~IsDir(fs, Append(root, n)))
           ignored == ignore_hidden_and_git(root, dirs0 \o files0)
           dirs    == SelectSeq(dirs0, LAMBDA n : Append(root, n) \notin ignored)
           files   == SelectSeq(files0, LAMBDA n : Append(root, n) \notin ignored)
           fs1     == RemoveAll(fs, root, files)
           fs2     == RemoveAll(fs1, root, dirs)
       IN  WalkInto(fs2, root, dirs)
WalkInto(fs, root, dirs) ==
  IF dirs = <<>> THEN fs
  ELSE WalkInto(safe_rmtree(fs, Append(root, Head(dirs))), root, Tail(dirs))

\* the asset directory shipped next to the script
AssetTree ==
  [dirs  |-> { <<AssetNm>> },
   files |-> (<<AssetNm, N("style", "css")>> :> [ctime |-> 1, text |-> "css"])]

\* copy_asset: the target is named "assert"
copy_asset(fs, asset_exists) ==
  IF asset_exists
  THEN CopyTree(AssetTree, <<AssetNm>>, RmTree(fs, <<AssertNm>>), <<AssertNm>>)
  ELSE fs

\* copy_resources
copy_resources(fs, source) ==
  IF Exists(source, <<ResourcesNm>>)
  THEN CopyTree(source, <<ResourcesNm>>, RmTree(fs, <<ResourcesNm>>), <<ResourcesNm>>)
  ELSE fs

\* ------------------------------------------------------------- listings
None == -1     \* the ctime of a directory entry

AllArticles == N("all-articles", "")

\* tuple comparison, as Python compares sort keys
RECURSIVE KeyLess(_, _)
KeyLess(a, b) ==
  IF a = <<>> \/ b = <<>> THEN Len(a) < Len(b)
  ELSE IF Head(a) # Head(b) THEN Head(a) < Head(b)
  ELSE KeyLess(Tail(a), Tail(b))

\* list.sort(key=..., reverse=True): descending and stable, so elements with
\* equal keys keep their original relative order
InsertDesc(sorted, x) ==
  LET k == Cardinality({ i \in 1..Len(sorted) : ~KeyLess(sorted[i].key, x.key) })
  IN  SubSeq(sorted, 1, k) \o <<x>> \o SubSeq(sorted, k + 1, Len(sorted))

RECURSIVE SortDescFrom(_, _)
SortDescFrom(sorted, rest) ==
  IF rest = <<>> THEN sorted
  ELSE SortDescFrom(InsertDesc(sorted, Head(rest)), Tail(rest))

SortDesc(keyed) ==
  LET s == SortDescFrom(<<>>, keyed) IN [i \in 1..Len(s) |-> s[i].val]

\* the sort key of generate_directory_sub_index
SubIndexKey(e) ==
  << IF e.ctime # None THEN 1 ELSE 0, IF e.ctime # None THEN e.ctime ELSE 0 >>

\* the key of an ascending sort
FirstIndexKeyAscending(e) == << 0 - e.ctime >>

\* the sort key of generate_directory_first_index
FirstIndexKey(e) == << e.ctime >>

\* the source document looked up by file name alone
MdFileByName(html_path) == << WithSuffix(Last(html_path), "md") >>

\* pathlib.Path(input_root) / rel_path.with_suffix(".md")
MdFile(html_path) == PathWithSuffix(html_path, "md")

\* md_file.exists()
SourceExists(source, md_file) == Exists(source, md_file)

DirLine(item_path, directory) ==
  [kind |-> "dir",
   href |-> RelPath(Append(item_path, IndexHtml), directory),
   time |-> <<>>,
   text |-> Last(item_path)]

PageLine(item_path, ctime, directory) ==
  [kind |-> "page",
   href |-> RelPath(item_path, directory),
   time |-> TimeStr(ctime),
   text |-> Stem(Last(item_path))]

\* generate_directory_sub_index, from the sort to the page that is written
SubIndexPage(fs, directory, html_files, top_level_dirs) ==
  LET sorted == SortDesc([i \in 1..Len(html_files) |->
                            [key |-> SubIndexKey(html_files[i]), val |-> html_files[i]]])
  IN  [kind   |-> "index",
       title  |-> IF directory = <<>> THEN AllArticles ELSE Last(directory),
       navbar |-> generate_navbar(top_level_dirs, Append(directory, IndexHtml)),
       list   |-> [i \in 1..Len(sorted) |->
                     IF IsDir(fs, sorted[i].path)
                     THEN DirLine(sorted[i].path, directory)
                     ELSE PageLine(sorted[i].path, sorted[i].ctime, directory)]]

\* generate_directory_first_index: the collection loop
RECURSIVE CollectAll(_, _, _)
CollectAll(html_list, source, stat_fail) ==
  IF html_list = <<>> THEN <<>>
  ELSE LET html_file == Head(html_list)
           md_file   == MdFile(html_file)
           rest      == CollectAll(Tail(html_list), source, stat_fail)
       IN  IF Last(html_file) = IndexHtml THEN rest
           ELSE IF ~SourceExists(source, md_file) THEN rest
           ELSE IF md_file \in stat_fail THEN rest
           ELSE <<[path |-> html_file, ctime |-> source.files[md_file].ctime]>> \o rest

\* generate_directory_first_index(directory = output root)
generate_directory_first_index(fs, source, stat_fail, top_level_dirs) ==
  LET all_htmls == CollectAll(RGlob(fs, <<>>, "html"), source, stat_fail)
      sorted    == SortDesc([i \in 1..Len(all_htmls) |->
                               [key |-> FirstIndexKey(all_htmls[i]), val |-> all_htmls[i]]])
      page      == [kind   |-> "index",
                    title  |-> AllArticles,
                    navbar |-> generate_navbar(top_level_dirs, <<IndexHtml>>),
                    list   |-> [i \in 1..Len(sorted) |->
                                  PageLine(sorted[i].path, sorted[i].ctime, <<>>)]]
  IN  WriteFile(fs, <<IndexHtml>>, page)

\* ---------------------------------------------------------------- inputs
DocCandidates ==
  { <<N("a", "md")>>, <<N("index", "md")>>,
    <<N("sub", ""), N("b", "md")>>,
    <<N("sub", ""), N("deep", ""), N("d", "md")>>,
    <<ResourcesNm, N("r", "md")>>, <<GitNm, N("a", "md")>> }

SourceTree(docs, ctimes) ==
  [dirs  |-> UNION { Prefixes(Parent(p)) : p \in docs } \cup { <<>> },
   files |-> [p \in docs |-> [ctime |-> ctimes[p], text |-> p]]]

Old == [kind |-> "raw", data |-> "old"]

\* what the output directory may hold before the first run
GitBundle   == [dirs  |-> { <<GitNm>>, <<GitNm, N("hooks", "")>> },
                files |-> { <<GitNm, N("config", "")>>, <<GitNm, N("a", "html")>> }]
StaleBundle == [dirs  |-> { <<N("sub", "")>> },
                files |-> { <<H("keep", "")>>, <<N("notes.md", "html")>>,
                            <<N("sub", ""), H("keep", "")>>,
                            <<N("sub", ""), N("old", "html")>> }]

OutputTree(bundles) ==
  [dirs  |-> { <<>> } \cup UNION { b.dirs : b \in bundles },
   files |-> [p \in UNION { b.files : b \in bundles } |-> Old]]

\* the output directory is missing, or holds any of the bundles
InitialOutputs ==
  { EmptyTree } \cup { OutputTree(bs) : bs \in SUBSET { GitBundle, StaleBundle } }

\* ----------------------------------------------------------------- state
VARIABLES
  src,          \* the source tree (read-only during the runs)
  statFail,     \* source documents whose stat() raises
  assetExists,  \* whether an asset directory lies next to the script
  out,          \* the output tree; it exists iff <<>> \in out.dirs
  pre,          \* the output tree as it was when the current run started
  srcPrev,      \* the source tree the previous run worked on
  written,      \* index pages written so far by the current run
  deleted,      \* whether a source document was deleted between runs
  pc,           \* position in main()
  run,          \* number of the current invocation of main()
  nav,          \* nav_manager.top_level_dirs
  mdFiles,      \* documents still to convert
  mainItems,    \* entries of os.listdir(out_dir) still to visit in main()
  stack         \* activation records of generate_directory_sub_index

vars == << src, statFail, assetExists, out, pre, srcPrev, written, deleted, pc, run, nav, mdFiles, mainItems, stack >>

Frame(directory, fs) ==
  [directory |-> directory, items |-> ListDir(fs, directory),
   html_files |-> <<>>, recursed |-> FALSE]

Top == stack[Len(stack)]
Pop == SubSeq(stack, 1, Len(stack) - 1)
ReplaceTop(f) == [stack EXCEPT ![Len(stack)] = f]

InitCommon ==
  /\ \E docs \in SUBSET DocCandidates :
       /\ Cardinality(docs) <= MaxDocs
       /\ \E ctimes \in [docs -> 1..MaxTime] : src = SourceTree(docs, ctimes)
  /\ assetExists \in BOOLEAN
  /\ out \in InitialOutputs
  /\ pre = out
  /\ srcPrev = src
  /\ written = {}
  /\ deleted = FALSE
  /\ pc = "clear"
  /\ run = 1
  /\ nav = <<>>
  /\ mdFiles = <<>>
  /\ mainItems = <<>>
  /\ stack = <<>>

Init == InitCommon /\ statFail = {}

InitFault == InitCommon /\ \E d \in DOMAIN src.files : statFail = {d}

\* ------------------------------------------------------ main(): the steps
\* lines 344-347: clear an existing output directory, then create it
Clear ==
  /\ pc = "clear"
  /\ out' = MkDirs(IF Exists(out, <<>>) THEN safe_rmtree(out, <<>>) ELSE out, <<>>)
  /\ pc' = "asset"
  /\ UNCHANGED << src, statFail, assetExists, srcPrev, deleted, written, pre, run, nav, mdFiles, mainItems, stack >>

\* line 350
CopyAsset ==
  /\ pc = "asset"
  /\ out' = copy_asset(out, assetExists)
  /\ pc' = "resources"
  /\ UNCHANGED << src, statFail, assetExists, srcPrev, deleted, written, pre, run, nav, mdFiles, mainItems, stack >>

\* line 353
CopyResources ==
  /\ pc = "resources"
  /\ out' = copy_resources(out, src)
  /\ pc' = "nav"
  /\ UNCHANGED << src, statFail, assetExists, srcPrev, deleted, written, pre, run, nav, mdFiles, mainItems, stack >>

\* lines 355-365: build the navigation registry, find the documents
RegisterNav ==
  /\ pc = "nav"
  /\ nav' = RegisterSections(<<>>, find_top_level_dirs(src))
  /\ mdFiles' = find_md_files(src)
  /\ pc' = "convert"
  /\ UNCHANGED << src, statFail, assetExists, srcPrev, deleted, written, out, pre, run, mainItems, stack >>

\* lines 367-369: one iteration of the conversion loop
ConvertOne ==
  /\ pc = "convert"
  /\ mdFiles # <<>>
  /\ out' = convert_md_to_html(out, src, Head(mdFiles), nav)
  /\ mdFiles' = Tail(mdFiles)
  /\ UNCHANGED << src, statFail, assetExists, srcPrev, deleted, written, pre, pc, run, nav, mainItems, stack >>

\* line 372: os.listdir(out_dir) is read once, when the loop starts
ConvertDone ==
  /\ pc = "convert"
  /\ mdFiles = <<>>
  /\ mainItems' = ListDir(out, <<>>)
  /\ pc' = "subindex"
  /\ UNCHANGED << src, statFail, assetExists, srcPrev, deleted, written, out, pre, run, nav, mdFiles, stack >>

\* lines 374-377: the names 'asset' and '_resources' are skipped
MainSkipReserved ==
  /\ pc = "subindex" /\ stack = <<>> /\ mainItems # <<>>
  /\ Head(mainItems) = AssetNm \/ Head(mainItems) = ResourcesNm
  /\ mainItems' = Tail(mainItems)
  /\ UNCHANGED << src, statFail, assetExists, srcPrev, deleted, written, out, pre, pc, run, nav, mdFiles, stack >>

\* line 381: an entry that is not a directory is passed over
MainSkipFile ==
  /\ pc = "subindex" /\ stack = <<>> /\ mainItems # <<>>
  /\ Head(mainItems) # AssetNm /\ Head(mainItems) # ResourcesNm
  /\ ~IsDir(out, <<Head(mainItems)>>)
  /\ mainItems' = Tail(mainItems)
  /\ UNCHANGED << src, statFail, assetExists, srcPrev, deleted, written, out, pre, pc, run, nav, mdFiles, stack >>

\* lines 381-383: generate_directory_sub_index is called on a directory
MainEnterDir ==
  /\ pc = "subindex" /\ stack = <<>> /\ mainItems # <<>>
  /\ Head(mainItems) # AssetNm /\ Head(mainItems) # ResourcesNm
  /\ IsDir(out, <<Head(mainItems)>>)
  /\ stack' = << Frame(<<Head(mainItems)>>, out) >>
  /\ mainItems' = Tail(mainItems)
  /\ UNCHANGED << src, statFail, assetExists, srcPrev, deleted, written, out, pre, pc, run, nav, mdFiles >>

\* lines 196-218: one iteration of the loop over os.listdir(directory) that
\* neither recurses nor raises
SubIndexItem ==
  /\ pc = "subindex" /\ stack # <<>> /\ Top.items # <<>>
  /\ LET directory == Top.directory
         item_path == Append(directory, Head(Top.items))
         md_file   == MdFile(item_path)
         skip      == [Top EXCEPT !.items = Tail(@), !.recursed = FALSE]
         add(c)    == [skip EXCEPT !.html_files = Append(@, [path |-> item_path, ctime |-> c])]
     IN  IF item_path = Append(directory, IndexHtml)
         THEN stack' = ReplaceTop(skip)
         ELSE IF IsDir(out, item_path)
         THEN /\ Exists(out, Append(item_path, IndexHtml)) \/ Top.recursed
              /\ stack' = ReplaceTop(add(None))
         ELSE IF Suffix(Last(item_path)) = "html" /\ SourceExists(src, md_file)
         THEN /\ md_file \notin statFail
              /\ stack' = ReplaceTop(add(src.files[md_file].ctime))
         ELSE stack' = ReplaceTop(skip)
  /\ UNCHANGED << src, statFail, assetExists, srcPrev, deleted, written, out, pre, pc, run, nav, mdFiles, mainItems >>

\* lines 201-204: a child directory without an index page is indexed first
SubIndexRecurse ==
  /\ pc = "subindex" /\ stack # <<>> /\ Top.items # <<>>
  /\ LET item_path == Append(Top.directory, Head(Top.items))
     IN  /\ item_path # Append(Top.directory, IndexHtml)
         /\ IsDir(out, item_path)
         /\ ~Exists(out, Append(item_path, IndexHtml))
         /\ ~Top.recursed
         /\ stack' = Append(ReplaceTop([Top EXCEPT !.recursed = TRUE]), Frame(item_path, out))
  /\ UNCHANGED << src, statFail, assetExists, srcPrev, deleted, written, out, pre, pc, run, nav, mdFiles, mainItems >>

\* lines 217-221: stat() of the source document raises inside the loop; the
\* handler around the whole loop returns without writing the index page
SubIndexRaise ==
  /\ pc = "subindex" /\ stack # <<>> /\ Top.items # <<>>
  /\ LET item_path == Append(Top.directory, Head(Top.items))
         md_file   == MdFile(item_path)
     IN  /\ item_path # Append(Top.directory, IndexHtml)
         /\ ~IsDir(out, item_path)
         /\ Suffix(Last(item_path)) = "html"
         /\ SourceExists(src, md_file)
         /\ md_file \in statFail
  /\ stack' = Pop
  /\ UNCHANGED << src, statFail, assetExists, srcPrev, deleted, written, out, pre, pc, run, nav, mdFiles, mainItems >>

\* lines 223-277: sort, render and write directory/index.html
SubIndexWrite ==
  /\ pc = "subindex" /\ stack # <<>> /\ Top.items = <<>>
  /\ out' = WriteFile(out, Append(Top.directory, IndexHtml),
                      SubIndexPage(out, Top.directory, Top.html_files, nav))
  /\ written' = written \cup { Append(Top.directory, IndexHtml) }
  /\ stack' = Pop
  /\ UNCHANGED << src, statFail, assetExists, srcPrev, deleted, pre, pc, run, nav, mdFiles, mainItems >>

\* line 385, after the loop of lines 372-383 has ended
FirstIndex ==
  /\ pc = "subindex" /\ stack = <<>> /\ mainItems = <<>>
  /\ out' = generate_directory_first_index(out, src, statFail, nav)
  /\ written' = written \cup { <<IndexHtml>> }
  /\ pc' = "archive"
  /\ UNCHANGED << src, statFail, assetExists, srcPrev, deleted, pre, run, nav, mdFiles, mainItems, stack >>

\* lines 388-392: the script copies itself into the output root
SelfArchive ==
  /\ pc = "archive"
  /\ out' = WriteFile(out, <<ScriptNm>>, [kind |-> "raw", data |-> "script"])
  /\ pc' = "done"
  /\ UNCHANGED << src, statFail, assetExists, srcPrev, deleted, written, pre, run, nav, mdFiles, mainItems, stack >>

\* main() is invoked again on the same source tree
Rerun ==
  /\ pc = "done"
  /\ run < MaxRuns
  /\ run' = run + 1
  /\ pre' = out
  /\ srcPrev' = src
  /\ written' = {}
  /\ pc' = "clear"
  /\ UNCHANGED << src, statFail, assetExists, deleted, out, nav, mdFiles, mainItems, stack >>

\* a source document is deleted, then main() is invoked again
RerunAfterDelete ==
  /\ pc = "done"
  /\ run < MaxRuns
  /\ ~deleted
  /\ \E d \in DOMAIN src.files :
       src' = [src EXCEPT !.files = [p \in DOMAIN src.files \ {d} |-> src.files[p]]]
  /\ deleted' = TRUE
  /\ run' = run + 1
  /\ pre' = out
  /\ srcPrev' = src
  /\ written' = {}
  /\ pc' = "clear"
  /\ UNCHANGED << statFail, assetExists, out, nav, mdFiles, mainItems, stack >>

Next ==
  \/ Clear \/ CopyAsset \/ CopyResources \/ RegisterNav
  \/ ConvertOne \/ ConvertDone
  \/ MainSkipReserved \/ MainSkipFile \/ MainEnterDir
  \/ SubIndexItem \/ SubIndexRecurse \/ SubIndexWrite
  \/ FirstIndex \/ SelfArchive \/ Rerun \/ RerunAfterDelete

NextFault == Next \/ SubIndexRaise

Spec == Init /\ [][Next]_vars

SpecFault == InitFault /\ [][NextFault]_vars

\* --------------------------------------------------------------- helpers
IsIndex(fs, q) == IsFile(fs, q) /\ fs.files[q].kind = "index"
Mirror(html_path) == PathWithSuffix(html_path, "md")
HasHidden(p) == \E i \in 1..Len(p) : p[i].dot \/ p[i] = GitNm
Subtree(fs, h) ==
  [dirs  |-> { q \in fs.dirs : IsPrefix(h, q) },
   files |-> [q \in { r \in DOMAIN fs.files : IsPrefix(h, r) } |-> fs.files[q]]]
Reserved(p) == p # <<>> /\ (Head(p) = AssertNm \/ Head(p) = ResourcesNm)

\* ----------------------------------------------------------------- claims

\* C1: in every sub-index page no page entry precedes a directory entry.
C1_DirsBeforePages ==
  \A q \in written :
    IsIndex(out, q) =>
      LET list == out.files[q].list
      IN  \A i, j \in 1..Len(list) :
            i < j => ~(list[i].kind = "page" /\ list[j].kind = "dir")

\* C2: clearing an existing output tree keeps exactly the entries that are
\* hidden (name starts with '.' or equals '.git') at any depth, with their
\* contents and their ancestor directories, and removes everything else.
C2_ClearKeepsHidden ==
  (pc = "asset" /\ Exists(pre, <<>>)) =>
    LET Keep(p) == \E q \in Entries(pre) : IsPrefix(p, q) /\ HasHidden(q)
    IN  /\ out.dirs = { <<>> } \cup { d \in pre.dirs : Keep(d) }
        /\ out.files = [f \in { g \in DOMAIN pre.files : Keep(g) } |-> pre.files[f]]

\* C3: when no source document lies under a hidden directory, a hidden entry
\* present at the output root when main() starts keeps its whole content
\* through every step of the run.
C3_HiddenUntouched ==
  (\A d \in DOMAIN src.files \cup DOMAIN srcPrev.files : ~HasHidden(d)) =>
    \A h \in Entries(pre) :
      (Len(h) = 1 /\ HasHidden(h)) => Subtree(out, h) = Subtree(pre, h)

\* C4: after a completed run every source document has, at its mapped path,
\* the page that embeds its rendered text and carries its stem as title.
C4_EveryDocumentHasItsPage ==
  pc = "done" =>
    \A d \in DOMAIN src.files :
      LET html_path == PathWithSuffix(d, "html")
      IN  /\ IsFile(out, html_path)
          /\ out.files[html_path].kind = "page"
          /\ out.files[html_path].body = Render(src.files[d].text)
          /\ out.files[html_path].title = Stem(Last(d))

\* C5: the asset subtree and the _resources subtree of the output root are
\* never indexed: the sub-index procedure is not invoked on or below them,
\* no index page is written inside them and the aggregate index lists no
\* page inside them.
C5_ReservedSubtreesExcluded ==
  /\ \A i \in 1..Len(stack) : ~Reserved(stack[i].directory)
  /\ \A q \in written : ~Reserved(q)
  /\ (pc = "done" /\ IsIndex(out, <<IndexHtml>>)) =>
       \A i \in 1..Len(out.files[<<IndexHtml>>].list) :
         ~Reserved(out.files[<<IndexHtml>>].list[i].href)

\* C6: after a completed run the root index.html is the aggregate index: one
\* flat list of exactly the pages of the output tree that are not named
\* index.html and whose mirrored source document exists, by non-increasing
\* source creation time; for {a.md, sub/b.md} it lists a.html and sub/b.html.
C6_AggregateIndex ==
  pc = "done" =>
    /\ IsIndex(out, <<IndexHtml>>)
    /\ LET list  == out.files[<<IndexHtml>>].list
           pages == { p \in DOMAIN out.files :
                        /\ Suffix(Last(p)) = "html"
                        /\ Last(p) # IndexHtml
                        /\ Exists(src, Mirror(p)) }
       IN  /\ \A i \in 1..Len(list) : list[i].kind = "page"
           /\ { list[i].href : i \in 1..Len(list) } = pages
           /\ Len(list) = Cardinality(pages)
           /\ \A i \in 1..(Len(list) - 1) :
                src.files[Mirror(list[i].href)].ctime
                  >= src.files[Mirror(list[i + 1].href)].ctime
           /\ DOMAIN src.files = { <<N("a", "md")>>, <<N("sub", ""), N("b", "md")>> }
                => pages = { <<N("a", "html")>>, <<N("sub", ""), N("b", "html")>> }

C6_Witness ==
  /\ pc = "done"
  /\ IsIndex(out, <<IndexHtml>>)
  /\ LET list == out.files[<<IndexHtml>>].list
     IN  /\ Len(list) >= 2
         /\ \E i \in 1..Len(list) : Len(list[i].href) >= 2
         /\ src.files[Mirror(list[1].href)].ctime
              > src.files[Mirror(list[Len(list)].href)].ctime
         /\ \E p \in DOMAIN out.files :
              Suffix(Last(p)) = "html" /\ Last(p) # IndexHtml /\ ~Exists(src, Mirror(p))

\* C7: a page whose source document no longer exists appears in no listing
\* written by the run, neither a sub-index nor the aggregate index.
C7_OrphanExclusion ==
  \A q \in written :
    IsIndex(out, q) =>
      \A i \in 1..Len(out.files[q].list) :
        out.files[q].list[i].kind = "page" =>
          Exists(src, Mirror(Parent(q) \o out.files[q].list[i].href))

C7_Witness ==
  /\ pc = "done"
  /\ run >= 2
  /\ \E p \in DOMAIN out.files :
       /\ p \in DOMAIN pre.files
       /\ out.files[p].kind = "page"
       /\ Exists(srcPrev, Mirror(p))
       /\ ~Exists(src, Mirror(p))
       /\ Append(Parent(p), IndexHtml) \in written
       /\ <<IndexHtml>> \in written

\* C8: a second run on an unchanged source tree leaves the output tree as
\* the first run left it: same paths, same pages, same listings.
C8_Idempotent ==
  (pc = "done" /\ run >= 2 /\ src = srcPrev) => out = pre

C8_Witness ==
  /\ pc = "done"
  /\ run >= 2
  /\ src = srcPrev
  /\ Cardinality(DOMAIN src.files) >= 2
  /\ IsIndex(out, <<GitNm, N("hooks", ""), IndexHtml>>)
  /\ \E p \in DOMAIN out.files : Len(p) >= 3 /\ out.files[p].kind = "page"

\* a step that returns from generate_directory_sub_index has written the
\* directory's index page with an entry for every child directory and for
\* every page whose source document exists and can be stat-ed
SubIndexReturnsComplete ==
  (stack # <<>> /\ Len(stack') < Len(stack)) =>
    LET directory  == Top.directory
        index_path == Append(directory, IndexHtml)
    IN  /\ index_path \in written'
        /\ IsIndex(out', index_path)
        /\ \A c \in Entries(out) :
             (Len(c) = Len(directory) + 1 /\ Parent(c) = directory /\ c # index_path) =>
               /\ IsDir(out, c) =>
                    \E i \in 1..Len(out'.files[index_path].list) :
                      out'.files[index_path].list[i] = DirLine(c, directory)
               /\ (IsFile(out, c) /\ Suffix(Last(c)) = "html"
                     /\ Exists(src, Mirror(c)) /\ Mirror(c) \notin statFail) =>
                    \E i \in 1..Len(out'.files[index_path].list) :
                      out'.files[index_path].list[i].href = << Last(c) >>

\* C9: when stat() of one page's source document fails while a sub-index is
\* collected, the index page of that directory is still written and lists
\* every other entry of the directory.
C9_StatFailureOmitsOneEntry == [][SubIndexReturnsComplete]_vars

\* C10: when the index page of a directory is about to be written, every
\* child directory its listing links to already has its own index.html.
C10_BottomUp ==
  (pc = "subindex" /\ stack # <<>> /\ Top.items = <<>>) =>
    \A i \in 1..Len(Top.html_files) :
      Top.html_files[i].ctime = None =>
        IsFile(out, Append(Top.html_files[i].path, IndexHtml))
====
